---------------------------- MODULE Spec2Model ----------------------------
(***************************************************************************)
(* A model of the schema semantic analyzer of                              *)
(* shared_crates/project_semantic/src/lib.rs: the item arena, the root     *)
(* scope bootstrap, the manifest loader (add_file, add_ember and the       *)
(* recursion below them) and resolve().                                    *)
(*                                                                         *)
(* Handles (ItemId) are 1-based indices into the arena `items`; NoId (0)   *)
(* is Option::None.  Paths are sequences of path components; "/" as first  *)
(* component is the root directory of an absolute path.                    *)
(***************************************************************************)
EXTENDS Integers, Sequences, FiniteSets, TLC

\* ------------------------------------------------------------------ bounds

\* add_file / add_ember calls made on one Semantic.
MaxCalls == 2

\* Nested add_scope_from_manifest calls the native stack holds; a deeper
\* recursion is the process dying of stack exhaustion.
MaxDepth == 4

\* ------------------------------------------------------------ small helpers

NoId == 0

EmptyMap == [k \in {} |-> NoId]

MapInsert(m, k, v) == [x \in (DOMAIN m) \cup {k} |-> IF x = k THEN v ELSE m[x]]

Range(f) == {f[x] : x \in DOMAIN f}

Last(s) == s[Len(s)]

Front(s) == SubSeq(s, 1, Len(s) - 1)

\* -------------------------------------------------------------- identifiers

\* The identifiers of the modelled manifests, by the casing their
\* validating constructor accepts.
SnakeIds ==
  {"", "ambient_core", "core", "demo", "my_comp", "sub", "inner", "base",
   "derived", "extra", "cyc", "cyc_a", "app", "lib", "libcore", "size",
   "widget", "thing", "dup", "same", "ok_comp", "bad_comp", "o", "mid",
   "d1", "d1x", "name_of", "two", "badc", "badk", "badm",
   "dia", "dia_l", "dia_r", "dia_c"}

PascalIds ==
  {"Bool", "F32", "U32", "Debuggable", "Networked", "Resource",
   "MaybeResource", "Store", "Enum", "Dir", "Up", "Down", "Hello", "Nope"}

\* Identifier::as_snake / as_pascal succeed on the matching kind only.
IsSnake(id) == id \in SnakeIds

IsPascal(id) == id \in PascalIds

\* -------------------------------------------------------------------- paths

IsAbsolute(p) == Len(p) > 0 /\ p[1] = "/"

\* Path::join: an absolute right-hand side replaces the left-hand side.
Join(base, p) == IF IsAbsolute(p) THEN p ELSE base \o p

RECURSIVE NormalizeFrom(_, _)
NormalizeFrom(acc, rest) ==
  IF rest = <<>> THEN acc
  ELSE LET c == Head(rest) IN
       IF c = "." THEN NormalizeFrom(acc, Tail(rest))
       ELSE IF c = ".."
            THEN IF acc = <<>> \/ Last(acc) = "/"
                 THEN NormalizeFrom(acc, Tail(rest))
                 ELSE NormalizeFrom(Front(acc), Tail(rest))
            ELSE NormalizeFrom(Append(acc, c), Tail(rest))

\* path::normalize: lexical removal of "." and "name/.." components.
Normalize(p) == NormalizeFrom(<<>>, p)

\* ---------------------------------------------------------------- manifests

\* A parsed Manifest (the shape Manifest::parse delivers): ember.id,
\* ember.includes, dependencies (name, Dependency::Path), components,
\* concepts, messages and enums, each an ordered mapping.
Manifest(id, includes, dependencies, components, concepts, messages, enums) ==
  [ember |-> [id |-> id, includes |-> includes],
   dependencies |-> dependencies,
   components |-> components,
   concepts |-> concepts,
   messages |-> messages,
   enums |-> enums]

ComponentDef(path, type, attributes, default) ==
  [path |-> path, type |-> type, attributes |-> attributes, default |-> default]

ConceptDef(path, extends, components) ==
  [path |-> path, extends |-> extends, components |-> components]

MessageDef(path, fields) == [path |-> path, fields |-> fields]

EnumDef(name, members) == [name |-> name, members |-> members]

PathDep(name, path) == [name |-> name, path |-> path]

EmptyManifest == Manifest("", <<>>, <<>>, <<>>, <<>>, <<>>, <<>>)

\* What FileProvider::get followed by Manifest::parse yields.
File(m) == [found |-> TRUE, parse_ok |-> TRUE, manifest |-> m]

Garbage == [found |-> TRUE, parse_ok |-> FALSE, manifest |-> EmptyManifest]

NotFound == [found |-> FALSE, parse_ok |-> FALSE, manifest |-> EmptyManifest]

\* The built-in schema (ambient_schema::FILES): name -> contents.
SchemaFiles ==
  ( <<"ambient.toml">> :>
      File(Manifest("ambient_core", << <<"schema", "core.toml">> >>, <<>>,
                    <<>>, <<>>, <<>>, <<>>)) )
  @@
  ( <<"schema", "core.toml">> :>
      File(Manifest("core", <<>>, <<>>,
                    << ComponentDef(<<"name_of">>, <<"Bool">>, << <<"Debuggable">> >>, "") >>,
                    <<>>, <<>>, <<>>)) )

\* The ember directories on disk, by absolute path.
DemoManifest ==
  Manifest("demo", <<>>, <<>>,
    << ComponentDef(<<"my_comp">>, <<"F32">>, << <<"Networked">> >>, "1.5"),
       ComponentDef(<<"extra">>, <<"U32">>, <<>>, ""),
       ComponentDef(<<"sub", "inner">>, <<"Dir">>, <<>>, "Up") >>,
    << ConceptDef(<<"base">>, <<>>,
                  << [comp |-> <<"my_comp">>, value |-> "1"],
                     [comp |-> <<"extra">>, value |-> "5"] >>),
       ConceptDef(<<"derived">>, << <<"base">> >>,
                  << [comp |-> <<"my_comp">>, value |-> "2"],
                     [comp |-> <<"sub", "inner">>, value |-> "Down"] >>) >>,
    << MessageDef(<<"Hello">>, << [name |-> "Dir", type |-> <<"Dir">>] >>) >>,
    << EnumDef("Dir", <<"Up", "Down">>) >>)

CycManifest == Manifest("cyc", << <<"a.toml">> >>, <<>>, <<>>, <<>>, <<>>, <<>>)

CycAManifest ==
  Manifest("cyc_a", << <<"ambient.toml">> >>, <<>>, <<>>, <<>>, <<>>, <<>>)

AppManifest ==
  Manifest("app", <<>>, << PathDep("lib", <<"..", "lib">>) >>,
    <<>>,
    << ConceptDef(<<"thing">>, << <<"widget">> >>, <<>>) >>,
    <<>>, <<>>)

LibManifest ==
  Manifest("libcore", <<>>, <<>>,
    << ComponentDef(<<"size">>, <<"U32">>, <<>>, "") >>,
    << ConceptDef(<<"widget">>, <<>>, << [comp |-> <<"size">>, value |-> "1"] >>) >>,
    <<>>, <<>>)

DupManifest ==
  Manifest("dup", << <<"x.toml">>, <<"y.toml">> >>, <<>>, <<>>, <<>>, <<>>, <<>>)

DupXManifest ==
  Manifest("same", <<>>, <<>>,
    << ComponentDef(<<"bad_comp">>, <<"Nope">>, <<>>, "") >>,
    <<>>, <<>>, <<>>)

DupYManifest ==
  Manifest("same", <<>>, <<>>,
    << ComponentDef(<<"ok_comp">>, <<"Bool">>, <<>>, "") >>,
    <<>>, <<>>, <<>>)

OManifest ==
  Manifest("o", <<>>, << PathDep("mid", <<"..", "mid">>) >>, <<>>, <<>>, <<>>, <<>>)

MidManifest ==
  Manifest("mid", <<>>, << PathDep("o", <<"..", "lib">>) >>, <<>>, <<>>, <<>>, <<>>)

D1Manifest ==
  Manifest("d1", <<>>, << PathDep("d1x", <<"..", "d1">>) >>, <<>>, <<>>, <<>>, <<>>)

\* A component, a concept and a message declared under a final segment of
\* the other casing; the second manifest also names a path dependency like
\* itself.
BadComponentManifest ==
  Manifest("badc", <<>>, <<>>,
    << ComponentDef(<<"Nope">>, <<"Bool">>, <<>>, "") >>,
    <<>>, <<>>, <<>>)

BadConceptManifest ==
  Manifest("badk", <<>>, << PathDep("badk", <<"..", "lib">>) >>,
    << ComponentDef(<<"size">>, <<"U32">>, <<>>, "") >>,
    << ConceptDef(<<"Hello">>, <<>>, <<>>) >>,
    <<>>, <<>>)

BadMessageManifest ==
  Manifest("badm", <<>>, <<>>, <<>>, <<>>,
    << MessageDef(<<"sub", "size">>, <<>>) >>,
    <<>>)

\* A diamond of includes: ambient.toml includes l.toml and r.toml, and each
\* of them includes c.toml.
DiaManifest ==
  Manifest("dia", << <<"l.toml">>, <<"r.toml">> >>, <<>>, <<>>, <<>>, <<>>, <<>>)

DiaLManifest ==
  Manifest("dia_l", << <<"c.toml">> >>, <<>>, <<>>, <<>>, <<>>, <<>>)

DiaRManifest ==
  Manifest("dia_r", << <<"c.toml">> >>, <<>>, <<>>, <<>>, <<>>, <<>>)

DiaCManifest ==
  Manifest("dia_c", <<>>, <<>>,
    << ComponentDef(<<"sub", "inner", "size">>, <<"U32">>, <<>>, ""),
       ComponentDef(<<"sub", "extra">>, <<"U32">>, <<>>, "") >>,
    << ConceptDef(<<"sub", "inner", "thing">>, <<>>, <<>>) >>,
    << MessageDef(<<"sub", "Hello">>, <<>>) >>,
    <<>>)

TwoManifest ==
  Manifest("two", <<>>,
    << PathDep("lib", <<"..", "lib">>), PathDep("demo", <<"..", "demo">>) >>,
    <<>>, <<>>, <<>>, <<>>)

DiskFiles ==
  ( <<"/", "demo", "ambient.toml">> :> File(DemoManifest) ) @@
  ( <<"/", "cyc", "ambient.toml">> :> File(CycManifest) ) @@
  ( <<"/", "cyc", "a.toml">> :> File(CycAManifest) ) @@
  ( <<"/", "app", "ambient.toml">> :> File(AppManifest) ) @@
  ( <<"/", "lib", "ambient.toml">> :> File(LibManifest) ) @@
  ( <<"/", "dup", "ambient.toml">> :> File(DupManifest) ) @@
  ( <<"/", "dup", "x.toml">> :> File(DupXManifest) ) @@
  ( <<"/", "dup", "y.toml">> :> File(DupYManifest) ) @@
  ( <<"/", "two", "ambient.toml">> :> File(TwoManifest) ) @@
  ( <<"/", "dia", "ambient.toml">> :> File(DiaManifest) ) @@
  ( <<"/", "dia", "l.toml">> :> File(DiaLManifest) ) @@
  ( <<"/", "dia", "r.toml">> :> File(DiaRManifest) ) @@
  ( <<"/", "dia", "c.toml">> :> File(DiaCManifest) ) @@
  ( <<"/", "badc", "ambient.toml">> :> File(BadComponentManifest) ) @@
  ( <<"/", "badk", "ambient.toml">> :> File(BadConceptManifest) ) @@
  ( <<"/", "badm", "ambient.toml">> :> File(BadMessageManifest) ) @@
  ( <<"/", "o", "ambient.toml">> :> File(OManifest) ) @@
  ( <<"/", "mid", "ambient.toml">> :> File(MidManifest) ) @@
  ( <<"/", "d1", "ambient.toml">> :> File(D1Manifest) ) @@
  ( <<"/", "d1", "x.toml">> :> Garbage )

EmberDirs ==
  {"demo", "cyc", "app", "lib", "dup", "o", "mid", "d1", "two", "badc", "badk",
   "badm", "dia"}

\* ------------------------------------------------------------ file providers

DiskFileProvider(base) == [kind |-> "disk", base |-> base]

ArrayFileProvider == [kind |-> "array"]

ProxyFileProvider(provider, base) ==
  [kind |-> "proxy", provider |-> provider, base |-> base]

\* std::fs::read_to_string over the modelled disk: the operating system
\* walks "." and ".." of the joined path (no symbolic links on this disk).
DiskRead(p) ==
  LET q == Normalize(p) IN IF q \in DOMAIN DiskFiles THEN DiskFiles[q] ELSE NotFound

\* ArrayFileProvider::get: the name as written must equal an entry's name.
ArrayRead(p) == IF p \in DOMAIN SchemaFiles THEN SchemaFiles[p] ELSE NotFound

RECURSIVE Get(_, _)
Get(provider, path) ==
  IF provider.kind = "disk" THEN DiskRead(Join(provider.base, path))
  ELSE IF provider.kind = "array" THEN ArrayRead(path)
  ELSE Get(provider.provider, Join(provider.base, path))

\* FullPath with path::normalize forgotten.
RECURSIVE FullPathNoNormalize(_, _)
FullPathNoNormalize(provider, path) ==
  IF provider.kind = "disk" THEN Join(provider.base, path)
  ELSE IF provider.kind = "array" THEN path
  ELSE FullPathNoNormalize(provider.provider, Join(provider.base, path))

RECURSIVE FullPath(_, _)
FullPath(provider, path) ==
  IF provider.kind = "disk" THEN Normalize(Join(provider.base, path))
  ELSE IF provider.kind = "array" THEN path
  ELSE Normalize(FullPath(provider.provider, Join(provider.base, path)))

\* -------------------------------------------------------------------- items

ItemData(parent_id, id, source) ==
  [parent_id |-> parent_id, id |-> id, source |-> source]

\* ResolvableItemId: Unresolved(path) | Resolved(handle).
Unresolved(path) == [arm |-> "Unresolved", path |-> path, id |-> NoId]

Resolved(id) == [arm |-> "Resolved", path |-> <<>>, id |-> id]

\* Option<ResolvableValue>: None | Unresolved(token) | Resolved(value of type).
NoValue == [arm |-> "None", token |-> "", ty |-> NoId]

UnresolvedValue(token) == [arm |-> "Unresolved", token |-> token, ty |-> NoId]

ResolvedValue(token, ty) == [arm |-> "Resolved", token |-> token, ty |-> ty]

\* Option<PathBuf>.
NoPath == [some |-> FALSE, path |-> <<>>]

SomePath(p) == [some |-> TRUE, path |-> p]

\* Scope::new: the six containers and the dependency list start empty.
ScopeNew(data, original_id, manifest_path, has_manifest) ==
  [kind |-> "Scope", data |-> data, original_id |-> original_id,
   manifest_path |-> manifest_path, has_manifest |-> has_manifest,
   scopes |-> EmptyMap, components |-> EmptyMap, concepts |-> EmptyMap,
   messages |-> EmptyMap, types |-> EmptyMap, attributes |-> EmptyMap,
   dependencies |-> <<>>]

UnresolvedAll(paths) == [i \in 1..Len(paths) |-> Unresolved(paths[i])]

\* Component::from_project: every reference Unresolved.
ComponentFromProject(data, c) ==
  [kind |-> "Component", data |-> data, type_ |-> Unresolved(c.type),
   attributes |-> UnresolvedAll(c.attributes),
   default |-> IF c.default = "" THEN NoValue ELSE UnresolvedValue(c.default)]

\* Concept::from_project.
ConceptFromProject(data, c) ==
  [kind |-> "Concept", data |-> data, extends |-> UnresolvedAll(c.extends),
   components |-> [i \in 1..Len(c.components) |->
                     [comp |-> Unresolved(c.components[i].comp),
                      value |-> UnresolvedValue(c.components[i].value)]]]

\* Message::from_project.
MessageFromProject(data, m) ==
  [kind |-> "Message", data |-> data,
   fields |-> [i \in 1..Len(m.fields) |->
                 [name |-> m.fields[i].name, type |-> Unresolved(m.fields[i].type)]]]

\* Type::new with TypeInner::Primitive / Type::from_project_enum.
TypePrimitive(data, pt) ==
  [kind |-> "Type", data |-> data,
   inner |-> [tag |-> "Primitive", pt |-> pt, members |-> <<>>]]

TypeFromProjectEnum(data, e) ==
  [kind |-> "Type", data |-> data,
   inner |-> [tag |-> "Enum", pt |-> "", members |-> e.members]]

AttributeNew(data) == [kind |-> "Attribute", data |-> data]

\* ---------------------------------------------------------- root bootstrap

\* The closed set of PrimitiveType variants, in declaration order.
PrimitiveTypes == <<"Bool", "F32", "U32">>

StandardAttributeNames ==
  <<"Debuggable", "Networked", "Resource", "MaybeResource", "Store", "Enum">>

RootScopeNew == ScopeNew(ItemData(NoId, "", "System"), "", NoPath, FALSE)

\* The handle create_root_scope gets from its first ItemMap::add.
RootId == 1

RECURSIVE AddPrimitives(_, _)
AddPrimitives(items, names) ==
  IF names = <<>> THEN items
  ELSE LET id == Head(names)
           item_id == Len(items) + 1
           added == Append(items, TypePrimitive(ItemData(RootId, id, "System"), id))
       IN AddPrimitives(
            [added EXCEPT ![RootId].types = MapInsert(@, id, item_id)],
            Tail(names))

\* make_attribute with the registration in root.attributes forgotten.
make_attribute_unregistered(items, root_scope, name) ==
  [items |-> Append(items, AttributeNew(ItemData(root_scope, name, "System"))),
   id |-> Len(items) + 1]

\* make_attribute: add the Attribute, register it in root.attributes.
make_attribute(items, root_scope, name) ==
  LET item_id == Len(items) + 1
      added == Append(items, AttributeNew(ItemData(root_scope, name, "System")))
  IN [items |-> [added EXCEPT ![root_scope].attributes = MapInsert(@, name, item_id)],
      id |-> item_id]

RECURSIVE AddAttributes(_, _, _)
AddAttributes(items, names, ids) ==
  IF names = <<>> THEN [items |-> items, ids |-> ids]
  ELSE LET r == make_attribute(items, RootId, Head(names))
       IN AddAttributes(r.items, Tail(names), Append(ids, r.id))

\* The statements of create_root_scope that take a view: types.insert for
\* every primitive type and attributes.insert for every attribute.
BootstrapViews ==
  [n \in 1..(Len(PrimitiveTypes) + Len(StandardAttributeNames)) |->
     <<[id |-> RootId, mutable |-> TRUE]>>]

\* create_root_scope: the arena after bootstrap and the StandardDefinitions.
create_root_scope ==
  LET with_types == AddPrimitives(<<RootScopeNew>>, PrimitiveTypes)
      r == AddAttributes(with_types, StandardAttributeNames, <<>>)
  IN [items |-> r.items,
      standard_definitions |->
        [debuggable |-> r.ids[1], networked |-> r.ids[2], resource |-> r.ids[3],
         maybe_resource |-> r.ids[4], store |-> r.ids[5], enum_ |-> r.ids[6]]]

\* ------------------------------------------------------------------- loader

\* The loader threads `st`: the arena, the visited_files set of the running
\* add_file call, and two history fields that the code does not have:
\* `stack`, the files (manifest paths in normal form) whose
\* add_scope_from_manifest call is in progress, and `reentered`, set when
\* such a call starts for a file that is on the stack.
LoadState(items) ==
  [items |-> items, visited |-> {}, stack |-> <<>>, reentered |-> FALSE,
   in_progress |-> <<>>, exact |-> TRUE, aliasing |-> FALSE]

\* The views of the arena: ItemMap::get and ItemMap::get_mut of a handle.
ReadView(id) == [id |-> id, mutable |-> FALSE]

MutView(id) == [id |-> id, mutable |-> TRUE]

\* The access policy is broken by views that are outstanding together, in
\* the order they were requested: a later view of a handle of which a view is
\* outstanding, one of the two being mutable.
Conflicts(views) ==
  \E i, j \in 1..Len(views) :
    /\ i < j
    /\ views[i].id = views[j].id
    /\ views[i].mutable \/ views[j].mutable

\* History: `aliasing` is set when a statement of the loader requests views
\* that break the policy; all of them are released when the statement ends.
Viewed(st, views) == [st EXCEPT !.aliasing = @ \/ Conflicts(views)]

\* One of the statements requests views that break the policy.
Broken(statements) == \E n \in 1..Len(statements) : Conflicts(statements[n])

\* Statements that each request the views of one element of `statements`.
ViewedEach(st, statements) == [st EXCEPT !.aliasing = @ \/ Broken(statements)]

\* History: `in_progress` holds the cycle keys of the add_scope_from_manifest
\* calls in progress, outermost first, and `exact` stays TRUE as long as
\* visited_files is the set of these keys whenever it is looked at.
Observed(st) == [st EXCEPT !.exact = @ /\ (st.visited = Range(st.in_progress))]

\* Entered without visited_files.insert(full_path).
EnteredNotInserted(st, manifest_path, full_path) ==
  Observed([st EXCEPT !.stack = Append(@, Normalize(manifest_path)),
                      !.in_progress = Append(@, full_path)])

\* add_scope_from_manifest goes on after visited_files.insert(full_path).
Entered(st, manifest_path, full_path) ==
  Observed([st EXCEPT !.visited = @ \cup {full_path},
                      !.stack = Append(@, Normalize(manifest_path)),
                      !.in_progress = Append(@, full_path)])

\* Returned without visited_files.remove(&full_path).
ReturnedNotRemoved(st, full_path) ==
  Observed([st EXCEPT !.stack = Front(@), !.in_progress = Front(@)])

\* add_scope_from_manifest returns Ok after visited_files.remove(&full_path).
Returned(st, full_path) ==
  Observed([st EXCEPT !.visited = @ \ {full_path},
                      !.stack = Front(@),
                      !.in_progress = Front(@)])

\* anyhow::Result<ItemId<Scope>> together with the state left behind.
Ok(st, val) == [st |-> st, ok |-> TRUE, val |-> val, err |-> ""]

Err(st, err) == [st |-> st, ok |-> FALSE, val |-> NoId, err |-> err]

\* ItemMap::get_or_create_scope_mut: walk `path` from `start`, reusing the
\* child scope registered under a segment and creating a missing one.
RECURSIVE get_or_create_scope_mut(_, _, _, _)
get_or_create_scope_mut(items, manifest_path, start, path) ==
  IF path = <<>> THEN [items |-> items, id |-> start]
  ELSE LET segment == Head(path) IN
       IF segment \in DOMAIN items[start].scopes
       THEN get_or_create_scope_mut(items, manifest_path,
                                    items[start].scopes[segment], Tail(path))
       ELSE LET new_id == Len(items) + 1
                scope == ScopeNew(ItemData(start, segment, items[start].data.source),
                                  segment, SomePath(manifest_path), FALSE)
                added == Append(items, scope)
            IN get_or_create_scope_mut(
                 [added EXCEPT ![start].scopes = MapInsert(@, segment, new_id)],
                 manifest_path, new_id, Tail(path))

\* The scope that the walk of `path` from `start` along the scopes mappings
\* ends in, NoId when a segment is not registered.
RECURSIVE Descend(_, _, _)
Descend(arena, start, path) ==
  IF path = <<>> THEN start
  ELSE IF Head(path) \in DOMAIN arena[start].scopes
       THEN Descend(arena, arena[start].scopes[Head(path)], Tail(path))
       ELSE NoId

\* scope_and_item that takes every path to have no scope segments.
ScopePathIgnored(path) == <<>>

\* path.scope_and_item().
ScopePath(path) == Front(path)

ItemSegment(path) == Last(path)

\* make_item_data with parent_id: None.
make_item_data_orphan(scope_id, item_id, source) == ItemData(NoId, item_id, source)

\* make_item_data that stamps every declared item as System.
make_item_data_system(scope_id, item_id, source) ==
  ItemData(scope_id, item_id, "System")

\* make_item_data: the parent of every declared item is the manifest's scope.
make_item_data(scope_id, item_id, source) == ItemData(scope_id, item_id, source)

DeclaredItem(kind, data, def) ==
  IF kind = "components" THEN ComponentFromProject(data, def)
  ELSE IF kind = "concepts" THEN ConceptFromProject(data, def)
  ELSE MessageFromProject(data, def)

\* KeyCasingOk without the as_snake / as_pascal conversion of the key.
KeyCasingUnchecked(kind, item) == TRUE

\* The key of the container: item.as_snake()? or item.as_pascal()?.
KeyCasingOk(kind, item) ==
  IF kind = "messages" THEN IsPascal(item) ELSE IsSnake(item)

InsertDeclared(items, kind, scope, key, value) ==
  IF kind = "components"
  THEN [items EXCEPT ![scope].components = MapInsert(@, key, value)]
  ELSE IF kind = "concepts"
       THEN [items EXCEPT ![scope].concepts = MapInsert(@, key, value)]
       ELSE [items EXCEPT ![scope].messages = MapInsert(@, key, value)]

\* The three loops over manifest.components / concepts / messages: add the
\* item, find or create the scope of its dotted path, insert it there.
RECURSIVE AddDeclared(_, _, _, _, _, _)
AddDeclared(items, kind, defs, scope_id, manifest_path, source) ==
  IF defs = <<>> THEN [items |-> items, ok |-> TRUE]
  ELSE LET def == Head(defs)
           item == ItemSegment(def.path)
           value == Len(items) + 1
           added == Append(items,
                           DeclaredItem(kind, make_item_data(scope_id, item, source), def))
           target == get_or_create_scope_mut(added, manifest_path, scope_id,
                                             ScopePath(def.path))
       IN IF ~KeyCasingOk(kind, item)
          THEN [items |-> target.items, ok |-> FALSE]
          ELSE AddDeclared(InsertDeclared(target.items, kind, target.id, item, value),
                           kind, Tail(defs), scope_id, manifest_path, source)

\* The loop over manifest.enums: enums are local to the manifest's scope.
RECURSIVE AddEnums(_, _, _, _)
AddEnums(items, enums, scope_id, source) ==
  IF enums = <<>> THEN items
  ELSE LET e == Head(enums)
           enum_id == Len(items) + 1
           added == Append(items,
                           TypeFromProjectEnum(make_item_data(scope_id, e.name, source), e))
       IN AddEnums([added EXCEPT ![scope_id].types = MapInsert(@, e.name, enum_id)],
                   Tail(enums), scope_id, source)

\* The key add_scope_from_manifest puts into visited_files.
CycleKey(provider, manifest_path) == FullPath(provider, manifest_path)

\* ExistingScope without the early return of the registered handle.
ExistingScopeNeverSame(items, root_id, scope_name, full_path) ==
  IF scope_name \notin DOMAIN items[root_id].scopes THEN "absent" ELSE "other"

\* ExistingScope without the bail on a name registered for another file.
ExistingScopeUnchecked(items, root_id, scope_name, full_path) ==
  IF scope_name \in DOMAIN items[root_id].scopes
       /\ items[items[root_id].scopes[scope_name]].manifest_path = SomePath(full_path)
  THEN "same"
  ELSE "absent"

\* The look-up of scope_name in root.scopes at the start of
\* add_file_internal: "absent", "same" (registered with this manifest path:
\* the existing handle is returned) or "other" (the call bails).
ExistingScope(items, root_id, scope_name, full_path) ==
  IF scope_name \notin DOMAIN items[root_id].scopes THEN "absent"
  ELSE IF items[items[root_id].scopes[scope_name]].manifest_path = SomePath(full_path)
       THEN "same"
       ELSE "other"

\* RegisterTopLevel keyed by the manifest's ember.id instead of scope_name.
RegisterTopLevelByOriginalId(items, root_id, scope_name, item_id) ==
  [items EXCEPT ![root_id].scopes = MapInsert(@, items[item_id].original_id, item_id)]

\* RegisterTopLevel that registers nothing.
RegisterTopLevelSkipped(items, root_id, scope_name, item_id) == items

\* The registration that ends add_file_internal.
RegisterTopLevel(items, root_id, scope_name, item_id) ==
  [items EXCEPT ![root_id].scopes = MapInsert(@, scope_name, item_id)]

\* The registration of an included file's scope in the including scope.
RegisterInclude(items, scope_id, id, child_scope_id) ==
  [items EXCEPT ![scope_id].scopes = MapInsert(@, id, child_scope_id)]

\* The views of the look-up that starts add_file_internal: the root scope
\* for scopes.get(&scope_name) and, while that view lives, the registered
\* scope for its manifest_path.
LookupViews(items, root_id, scope_name) ==
  IF scope_name \in DOMAIN items[root_id].scopes
  THEN <<ReadView(root_id), ReadView(items[root_id].scopes[scope_name])>>
  ELSE <<ReadView(root_id)>>

\* TopLevelViews with the view of the look-up still outstanding.
TopLevelViewsLookupHeld(root_id) == <<ReadView(root_id), MutView(root_id)>>

\* The view of the registration that ends add_file_internal.
TopLevelViews(root_id) == <<MutView(root_id)>>

\* The statements of one turn of the includes loop: the child's data().id
\* is read, then the child is inserted into the including scope.
IncludeViews(scope_id, child_scope_id) ==
  << <<ReadView(child_scope_id)>>, <<MutView(scope_id)>> >>

\* The statement of each declaration of `defs`: the mutable view that
\* get_or_create_scope_mut returns of the scope the path leads to.
DeclaredViews(items, scope_id, defs) ==
  [n \in 1..Len(defs) |-> <<MutView(Descend(items, scope_id, ScopePath(defs[n].path)))>>]

\* The statements of add_scope_from_manifest after the dependencies loop:
\* dependencies.append, the declarations, types.insert for every enum.
ManifestViews(items, scope_id, manifest) ==
  << <<MutView(scope_id)>> >>
    \o DeclaredViews(items, scope_id, manifest.components)
    \o DeclaredViews(items, scope_id, manifest.concepts)
    \o DeclaredViews(items, scope_id, manifest.messages)
    \o [n \in 1..Len(manifest.enums) |-> <<MutView(scope_id)>>]

RECURSIVE add_file_internal(_, _, _, _, _, _)
RECURSIVE add_file_at_non_toplevel(_, _, _, _, _, _)
RECURSIVE add_scope_from_manifest(_, _, _, _, _, _, _, _)
RECURSIVE LoadIncludes(_, _, _, _, _, _)
RECURSIVE LoadDependencies(_, _, _, _, _, _)

\* The end of add_file_internal: `r` is what add_scope_from_manifest
\* returned; `?` propagates its error, otherwise the scope is registered.
TopLevelLoaded(r, root_id, scope_name) ==
  IF ~r.ok THEN r
  ELSE Ok(Viewed([r.st EXCEPT !.items = RegisterTopLevel(@, root_id, scope_name,
                                                         r.val)],
                 TopLevelViews(root_id)),
          r.val)

add_file_internal(st, filename, provider, source, scope_name_opt, depth) ==
  LET file == Get(provider, filename) IN
  IF ~file.found THEN Err(st, "FileNotFound")
  ELSE IF ~file.parse_ok THEN Err(st, "ParseError")
  ELSE
    LET manifest == file.manifest
        root_id == RootId
        scope_name == IF scope_name_opt = "" THEN manifest.ember.id ELSE scope_name_opt
        manifest_path == FullPath(provider, filename)
        existing == ExistingScope(st.items, root_id, scope_name, manifest_path)
        looked == Viewed(st, LookupViews(st.items, root_id, scope_name))
    IN IF existing = "same" THEN Ok(looked, st.items[root_id].scopes[scope_name])
       ELSE IF existing = "other" THEN Err(looked, "DuplicateScope")
       ELSE TopLevelLoaded(
              add_scope_from_manifest(looked, root_id, provider, manifest, manifest_path,
                                      scope_name, source, depth),
              root_id, scope_name)

add_file_at_non_toplevel(st, parent_scope, filename, provider, source, depth) ==
  LET file == Get(provider, filename) IN
  IF ~file.found THEN Err(st, "FileNotFound")
  ELSE IF ~file.parse_ok THEN Err(st, "ParseError")
  ELSE add_scope_from_manifest(st, parent_scope, provider, file.manifest,
                               FullPath(provider, filename),
                               file.manifest.ember.id, source, depth)

\* One turn of the includes loop after add_file_at_non_toplevel returned
\* `r`: register the child under its data.id and go on with the rest.
IncludeLoaded(r, scope_id, provider, includes, source, depth) ==
  IF ~r.ok THEN r
  ELSE LET id == r.st.items[r.val].data.id IN
       IF ~IsSnake(id) THEN Err(r.st, "IdentifierInvalid")
       ELSE LoadIncludes(
              ViewedEach([r.st EXCEPT !.items = RegisterInclude(@, scope_id, id,
                                                                r.val)],
                         IncludeViews(scope_id, r.val)),
              scope_id, provider, Tail(includes), source, depth)

\* The loop over manifest.ember.includes.
LoadIncludes(st, scope_id, provider, includes, source, depth) ==
  IF includes = <<>> THEN Ok(st, scope_id)
  ELSE IncludeLoaded(
         add_file_at_non_toplevel(st, scope_id, Head(includes), provider, source,
                                  depth),
         scope_id, provider, includes, source, depth)

\* DependencyLoaded with dependency_scopes.push forgotten.
DependencyLoadedNotRecorded(r, provider, dependencies, source, depth, dependency_scopes) ==
  IF ~r.ok THEN r
  ELSE LoadDependencies(r.st, provider, Tail(dependencies), source, depth,
                        dependency_scopes)

\* One turn of the dependencies loop after add_file_internal returned `r`.
DependencyLoaded(r, provider, dependencies, source, depth, dependency_scopes) ==
  IF ~r.ok THEN r
  ELSE LoadDependencies(r.st, provider, Tail(dependencies), source, depth,
                        Append(dependency_scopes, r.val))

\* The loop over manifest.dependencies; `val` is dependency_scopes.
LoadDependencies(st, provider, dependencies, source, depth, dependency_scopes) ==
  IF dependencies = <<>> THEN Ok(st, dependency_scopes)
  ELSE DependencyLoaded(
         add_file_internal(st, <<"ambient.toml">>,
                           ProxyFileProvider(provider, Head(dependencies).path),
                           source, Head(dependencies).name, depth),
         provider, dependencies, source, depth, dependency_scopes)

\* The declarations of the manifest: components, concepts, messages, enums.
\* `r2` is what the dependencies loop returned.
DeclareItems(r2, scope_id, manifest, manifest_path, full_path, source) ==
  IF ~r2.ok THEN r2 ELSE
  LET items3 == [r2.st.items EXCEPT ![scope_id].dependencies = @ \o r2.val]
      c1 == AddDeclared(items3, "components", manifest.components, scope_id,
                        manifest_path, source)
  IN IF ~c1.ok THEN Err([r2.st EXCEPT !.items = c1.items], "IdentifierInvalid") ELSE
  LET c2 == AddDeclared(c1.items, "concepts", manifest.concepts, scope_id,
                        manifest_path, source)
  IN IF ~c2.ok THEN Err([r2.st EXCEPT !.items = c2.items], "IdentifierInvalid") ELSE
  LET c3 == AddDeclared(c2.items, "messages", manifest.messages, scope_id,
                        manifest_path, source)
  IN IF ~c3.ok THEN Err([r2.st EXCEPT !.items = c3.items], "IdentifierInvalid") ELSE
  LET items4 == AddEnums(c3.items, manifest.enums, scope_id, source)
  IN Ok(Returned(ViewedEach([r2.st EXCEPT !.items = items4],
                            ManifestViews(items4, scope_id, manifest)),
                 full_path),
        scope_id)

\* The dependencies loop; `r1` is what the includes loop returned.
IncludesLoaded(r1, scope_id, provider, manifest, manifest_path, full_path, source, depth) ==
  IF ~r1.ok THEN r1
  ELSE DeclareItems(
         LoadDependencies(r1.st, provider, manifest.dependencies, source, depth + 1,
                          <<>>),
         scope_id, manifest, manifest_path, full_path, source)

add_scope_from_manifest(st, parent_id, provider, manifest, manifest_path, id, source, depth) ==
  LET scope == ScopeNew(ItemData(parent_id, id, source), manifest.ember.id,
                        SomePath(manifest_path), TRUE)
      scope_id == Len(st.items) + 1
      st1 == [st EXCEPT !.items = Append(@, scope),
                        !.reentered = @ \/ (\E i \in 1..Len(st.stack) :
                                              st.stack[i] = Normalize(manifest_path))]
      full_path == CycleKey(provider, manifest_path)
  IN
  IF depth >= MaxDepth THEN Err(st1, "StackOverflow")
  ELSE IF full_path \in st1.visited THEN Err(st1, "CircularInclude")
  ELSE
    IncludesLoaded(
      LoadIncludes(Entered(st1, manifest_path, full_path),
                   scope_id, provider, manifest.ember.includes, source, depth + 1),
      scope_id, provider, manifest, manifest_path, full_path, source, depth)

\* Semantic::add_file: a fresh visited_files set for every call.
add_file(items, filename, provider, source, scope_name_opt) ==
  add_file_internal(LoadState(items), filename, provider, source, scope_name_opt, 0)

\* Semantic::add_ember.
add_ember(items, ember_path) ==
  add_file(items, <<"ambient.toml">>, DiskFileProvider(ember_path), "User", "")

\* ----------------------------------------------------------------- resolver

\* Context: the enclosing scopes, innermost first, the root last.
ContextNew(root) == <<root>>

ContextPush(ctx, scope_id) == <<scope_id>> \o ctx

Container(scope, name) ==
  CASE name = "components" -> scope.components
    [] name = "concepts" -> scope.concepts
    [] name = "messages" -> scope.messages
    [] name = "types" -> scope.types
    [] OTHER -> scope.attributes

\* Walk the prefix segments through the scopes mappings, then look the last
\* segment up in the container of the expected item type.
RECURSIVE LookupIn(_, _, _, _)
LookupIn(arena, scope_id, path, container) ==
  IF Len(path) = 1
  THEN LET c == Container(arena[scope_id], container)
       IN IF path[1] \in DOMAIN c THEN c[path[1]] ELSE NoId
  ELSE IF Head(path) \in DOMAIN arena[scope_id].scopes
       THEN LookupIn(arena, arena[scope_id].scopes[Head(path)], Tail(path), container)
       ELSE NoId

\* Option::or_else: the handle that was found, otherwise the alternative.
OrElse(found, alternative) == IF found # NoId THEN found ELSE alternative

RECURSIVE LookupInEach(_, _, _, _)
LookupInEach(arena, scope_ids, path, container) ==
  IF scope_ids = <<>> THEN NoId
  ELSE OrElse(LookupIn(arena, Head(scope_ids), path, container),
              LookupInEach(arena, Tail(scope_ids), path, container))

\* A starting scope: its own containers, then its dependencies in order.
LookupFromScope(arena, scope_id, path, container) ==
  OrElse(LookupIn(arena, scope_id, path, container),
         LookupInEach(arena, arena[scope_id].dependencies, path, container))

RECURSIVE LookupFromContext(_, _, _, _)
LookupFromContext(arena, ctx, path, container) ==
  IF ctx = <<>> THEN NoId
  ELSE OrElse(LookupFromScope(arena, Head(ctx), path, container),
              LookupFromContext(arena, Tail(ctx), path, container))

\* A dotted path that begins with the empty root-scope segment is absolute.
IsAbsoluteItemPath(path) == Len(path) > 1 /\ path[1] = ""

\* The name lookup algorithm; NoId is UnresolvedReference.
Lookup(arena, ctx, path, container) ==
  IF IsAbsoluteItemPath(path) THEN LookupIn(arena, RootId, Tail(path), container)
  ELSE OrElse(LookupFromContext(arena, ctx, path, container),
              IF container \in {"types", "attributes"}
              THEN LookupIn(arena, RootId, path, container)
              ELSE NoId)

\* The outcome of resolving: the arena as rewritten so far, and on failure
\* the error kind and the dotted path (or token) it carries.
ROk(arena) == [items |-> arena, ok |-> TRUE, err |-> "", path |-> <<>>]

RErr(arena, err, path) == [items |-> arena, ok |-> FALSE, err |-> err, path |-> path]

\* What the lookup of `ref` found: NoId leaves the reference as it is.
LookedUp(ref, found) ==
  IF found = NoId THEN [ok |-> FALSE, ref |-> ref]
  ELSE [ok |-> TRUE, ref |-> Resolved(found)]

\* One reference: a Resolved arm passes through.
ResolveRef(arena, ctx, ref, container) ==
  IF ref.arm = "Resolved" THEN [ok |-> TRUE, ref |-> ref]
  ELSE LookedUp(ref, Lookup(arena, ctx, ref.path, container))

\* A sequence of references, left to right, stopping at the first failure.
RECURSIVE ResolveRefs(_, _, _, _, _)
ResolveRefs(arena, ctx, refs, container, done) ==
  IF refs = <<>> THEN [ok |-> TRUE, refs |-> done, path |-> <<>>]
  ELSE LET r == ResolveRef(arena, ctx, Head(refs), container)
       IN IF ~r.ok THEN [ok |-> FALSE, refs |-> done \o refs, path |-> Head(refs).path]
          ELSE ResolveRefs(arena, ctx, Tail(refs), container, Append(done, r.ref))

\* ResolvableValue::resolve against the expected type: an enum variant must
\* be a member of the enum; a scalar token is typed as the primitive.
ResolveValue(arena, value, ty) ==
  IF value.arm # "Unresolved" THEN [ok |-> TRUE, value |-> value]
  ELSE IF arena[ty].inner.tag = "Enum"
            /\ ~(\E i \in 1..Len(arena[ty].inner.members) :
                   arena[ty].inner.members[i] = value.token)
       THEN [ok |-> FALSE, value |-> value]
       ELSE [ok |-> TRUE, value |-> ResolvedValue(value.token, ty)]

RECURSIVE SortedSeq(_)
SortedSeq(S) ==
  IF S = {} THEN <<>>
  ELSE LET m == CHOOSE x \in S : \A y \in S : x <= y
       IN <<m>> \o SortedSeq(S \ {m})

\* The handles of a container, in insertion (= handle) order.
Values(m) == SortedSeq(Range(m))

HasComponent(entries, id) == \E i \in 1..Len(entries) : entries[i].comp.id = id

\* InheritComponents without the test for an entry the concept holds.
InheritComponentsAppendAll(own, inherited) == own \o inherited

\* InheritComponents that inherits nothing.
InheritComponentsSkipped(own, inherited) == own

\* Inherit an ancestor's entries: those whose component handle this
\* concept's map does not hold are appended; own entries win.
RECURSIVE InheritComponents(_, _)
InheritComponents(own, inherited) ==
  IF inherited = <<>> THEN own
  ELSE IF HasComponent(own, Head(inherited).comp.id)
       THEN InheritComponents(own, Tail(inherited))
       ELSE InheritComponents(Append(own, Head(inherited)), Tail(inherited))

RECURSIVE resolve_clone(_, _, _)
RECURSIVE ResolveEach(_, _, _)
RECURSIVE ResolveComponent(_, _, _)
RECURSIVE ResolveConcept(_, _, _)
RECURSIVE ResolveConceptKeys(_, _, _, _)
RECURSIVE InheritFrom(_, _, _, _)
RECURSIVE ResolveConceptValues(_, _, _, _)

\* After one handle resolved to `r`: `?` on failure, otherwise the rest.
ResolveRest(r, ctx, ids) ==
  IF ~r.ok THEN r ELSE ResolveEach(r.items, ctx, Tail(ids))

\* resolve_clone over a list of handles, stopping at the first failure.
ResolveEach(arena, ctx, ids) ==
  IF ids = <<>> THEN ROk(arena)
  ELSE ResolveRest(resolve_clone(arena, ctx, Head(ids)), ctx, ids)

\* Scope: the child scopes first, then the scope's own items.
ResolveScope(arena, ctx, id) ==
  LET scope == arena[id]
      inner == ContextPush(ctx, id)
  IN ResolveEach(arena, inner,
       Values(scope.scopes) \o Values(scope.components) \o Values(scope.concepts)
         \o Values(scope.messages) \o Values(scope.types)
         \o Values(scope.attributes))

\* Component: type_, each attribute, then default against the type.
ResolveComponent(arena, ctx, id) ==
  LET c == arena[id]
      t == ResolveRef(arena, ctx, c.type_, "types")
  IN IF ~t.ok THEN RErr(arena, "UnresolvedReference", c.type_.path) ELSE
     LET a == ResolveRefs(arena, ctx, c.attributes, "attributes", <<>>)
     IN IF ~a.ok THEN RErr(arena, "UnresolvedReference", a.path) ELSE
        LET v == ResolveValue(arena, c.default, t.ref.id)
        IN IF ~v.ok THEN RErr(arena, "UnresolvedValue", <<c.default.token>>)
           ELSE ROk([arena EXCEPT ![id] =
                       [c EXCEPT !.type_ = t.ref, !.attributes = a.refs,
                                 !.default = v.value]])

\* The keys of a concept's own components map.
ResolveConceptKeys(arena, ctx, entries, done) ==
  IF entries = <<>> THEN [ok |-> TRUE, entries |-> done, path |-> <<>>]
  ELSE LET r == ResolveRef(arena, ctx, Head(entries).comp, "components")
       IN IF ~r.ok
          THEN [ok |-> FALSE, entries |-> done, path |-> Head(entries).comp.path]
          ELSE ResolveConceptKeys(arena, ctx, Tail(entries),
                                  Append(done, [Head(entries) EXCEPT !.comp = r.ref]))

\* After the ancestor Head(extends) resolved to `r`: inherit its entries.
AncestorResolved(r, ctx, extends, entries) ==
  IF ~r.ok THEN [r |-> r, entries |-> entries]
  ELSE InheritFrom(r.items, ctx, Tail(extends),
                   InheritComponents(entries, r.items[Head(extends).id].components))

\* Each ancestor in extends order: resolve it, then inherit its entries.
InheritFrom(arena, ctx, extends, entries) ==
  IF extends = <<>> THEN [r |-> ROk(arena), entries |-> entries]
  ELSE AncestorResolved(resolve_clone(arena, ctx, Head(extends).id), ctx, extends,
                        entries)

\* After the component of Head(entries) resolved to `r`: its value against
\* the component's resolved type.
EntryComponentResolved(r, ctx, entries, done) ==
  IF ~r.ok THEN [r |-> r, entries |-> done]
  ELSE LET e == Head(entries)
           v == ResolveValue(r.items, e.value, r.items[e.comp.id].type_.id)
       IN IF ~v.ok
          THEN [r |-> RErr(r.items, "UnresolvedValue", <<e.value.token>>),
                entries |-> done]
          ELSE ResolveConceptValues(r.items, ctx, Tail(entries),
                                    Append(done, [e EXCEPT !.value = v.value]))

\* Each value against the resolved type of its component.
ResolveConceptValues(arena, ctx, entries, done) ==
  IF entries = <<>> THEN [r |-> ROk(arena), entries |-> done]
  ELSE EntryComponentResolved(resolve_clone(arena, ctx, Head(entries).comp.id), ctx,
                              entries, done)

\* The end of Concept::resolve: `v` holds the resolved values; the clone
\* `c` is written back with its extends `x` and its components.
ConceptValuesResolved(c, id, x, v) ==
  IF ~v.r.ok THEN v.r
  ELSE ROk([v.r.items EXCEPT ![id] =
              [c EXCEPT !.extends = x.refs, !.components = v.entries]])

\* After the inheritance `h`: the values.
ConceptInherited(c, ctx, id, x, h) ==
  IF ~h.r.ok THEN h.r
  ELSE ConceptValuesResolved(
         c, id, x, ResolveConceptValues(h.r.items, ctx, h.entries, <<>>))

\* After the keys `k` of the concept's map: the inheritance.
ConceptKeysResolved(arena, c, ctx, id, x, k) ==
  IF ~k.ok THEN RErr(arena, "UnresolvedReference", k.path)
  ELSE ConceptInherited(c, ctx, id, x, InheritFrom(arena, ctx, x.refs, k.entries))

\* After the extends list `x`: the keys of the concept's map.
ConceptExtendsResolved(arena, c, ctx, id, x) ==
  IF ~x.ok THEN RErr(arena, "UnresolvedReference", x.path)
  ELSE ConceptKeysResolved(arena, c, ctx, id, x,
                           ResolveConceptKeys(arena, ctx, c.components, <<>>))

\* Concept: extends, the keys of its map, inheritance, then the values.
ResolveConcept(arena, ctx, id) ==
  ConceptExtendsResolved(arena, arena[id], ctx, id,
                         ResolveRefs(arena, ctx, arena[id].extends, "concepts", <<>>))

\* Message: each field type.
ResolveMessage(arena, ctx, id) ==
  LET m == arena[id]
      types == [i \in 1..Len(m.fields) |-> m.fields[i].type]
      t == ResolveRefs(arena, ctx, types, "types", <<>>)
  IN IF ~t.ok THEN RErr(arena, "UnresolvedReference", t.path)
     ELSE ROk([arena EXCEPT ![id].fields =
                 [i \in 1..Len(m.fields) |-> [m.fields[i] EXCEPT !.type = t.refs[i]]]])

\* ItemMap::resolve_clone: clone the item out, resolve it, write it back.
resolve_clone(arena, ctx, id) ==
  LET kind == arena[id].kind
  IN IF kind = "Scope" THEN ResolveScope(arena, ctx, id)
     ELSE IF kind = "Component" THEN ResolveComponent(arena, ctx, id)
     ELSE IF kind = "Concept" THEN ResolveConcept(arena, ctx, id)
     ELSE IF kind = "Message" THEN ResolveMessage(arena, ctx, id)
     ELSE ROk(arena)

\* The scopes Semantic::resolve iterates: root.scopes.values().
RootScopes(arena, root_id) == Values(arena[root_id].scopes)

\* The statements of Semantic::resolve that take a view: the root scope is
\* read, its scopes are collected and the view is dropped; resolve_clone
\* then clones each scope out and writes the resolved scope back.
ResolveViews(arena) ==
  << <<ReadView(RootId)>> >>
    \o [n \in 1..(2 * Len(RootScopes(arena, RootId))) |->
          IF n % 2 = 1 THEN <<ReadView(RootScopes(arena, RootId)[(n + 1) \div 2])>>
          ELSE <<MutView(RootScopes(arena, RootId)[n \div 2])>>]

\* Semantic::resolve.
resolve(arena) ==
  ResolveEach(arena, ContextNew(RootId), RootScopes(arena, RootId))

\* -------------------------------------------------------------------- state

VARIABLES
  constructed,            \* a Semantic returned by new() exists
  items,                  \* Semantic::items, the arena
  standard_definitions,   \* Semantic::standard_definitions
  bans,                   \* the process-wide identifier-ban flag
  calls,                  \* add_file / add_ember calls made on this Semantic
  all_accepted,           \* every one of them returned Ok
  accepted,               \* the add_file / add_ember calls that returned Ok
  resolve_called,         \* resolve() has been called on this Semantic
  pre,                    \* the arena before the last call
  last                    \* the last call: its arguments and what it returned

vars == <<constructed, items, standard_definitions, bans, calls, all_accepted,
          accepted, resolve_called, pre, last>>

NoDefinitions ==
  [debuggable |-> NoId, networked |-> NoId, resource |-> NoId,
   maybe_resource |-> NoId, store |-> NoId, enum_ |-> NoId]

\* The arguments of an add_file call and, in `accepted`, what it returned.
Args(filename, provider, source, scope_name) ==
  [filename |-> filename, provider |-> provider, source |-> source,
   scope_name |-> scope_name]

\* The handles that earlier calls with these arguments returned.
EarlierResults(args) == {a.val : a \in {b \in accepted : b.args = args}}

\* `prev_vals`: what the earlier successful calls with the same arguments
\* returned; `repeat`: resolve() follows a resolve() that returned Ok;
\* `path`: the dotted path or token a failed resolve() carries in its error.
Call(op, args, r) ==
  [op |-> op, args |-> args, ok |-> r.ok, err |-> r.err, val |-> r.val,
   reentered |-> r.st.reentered, prev_vals |-> EarlierResults(args),
   repeat |-> FALSE, path |-> <<>>, visited |-> r.st.visited,
   exact |-> r.st.exact, aliasing |-> r.st.aliasing]

NoArgs == Args(<<>>, ArrayFileProvider, "System", "")

NoCall ==
  [op |-> "none", args |-> NoArgs, ok |-> TRUE, err |-> "", val |-> NoId,
   reentered |-> FALSE, prev_vals |-> {}, repeat |-> FALSE, path |-> <<>>,
   visited |-> {}, exact |-> TRUE, aliasing |-> FALSE]

ResolveCall(r) ==
  [NoCall EXCEPT !.op = "resolve", !.ok = r.ok, !.err = r.err, !.path = r.path,
                 !.repeat = (last.op = "resolve" /\ last.ok),
                 !.aliasing = Broken(ResolveViews(items))]

\* The arguments the model calls add_file with ("" is scope_name = None).
FileNames == {<<"ambient.toml">>, <<"x.toml">>}

AddFileProviders ==
  {DiskFileProvider(<<"/", d>>) : d \in {"lib", "dup", "d1"}}
    \cup {DiskFileProvider(<<"/", "app", "..", "lib">>)}

Sources == {"User", "Ambient"}

ScopeNames == {"", "lib", "dup"}

\* The add_file calls: x.toml is asked of the directories that hold one, and
\* the source Ambient is used with /lib/ambient.toml.
AddFileCalls ==
  {a \in FileNames \X AddFileProviders \X Sources \X ScopeNames :
     /\ a[1] = <<"x.toml">> =>
          a[2] \in {DiskFileProvider(<<"/", "dup">>), DiskFileProvider(<<"/", "d1">>)}
     /\ a[3] = "Ambient" =>
          (a[1] = <<"ambient.toml">> /\ a[2] = DiskFileProvider(<<"/", "lib">>))}

Init ==
  /\ constructed = FALSE
  /\ items = <<>>
  /\ standard_definitions = NoDefinitions
  /\ bans = FALSE
  /\ calls = 0
  /\ all_accepted = TRUE
  /\ accepted = {}
  /\ resolve_called = FALSE
  /\ pre = <<>>
  /\ last = NoCall

\* Constructed for a new() that does not call activate_identifier_bans().
ConstructedNotActivated(root, r) ==
  /\ constructed' = r.ok
  /\ items' = IF r.ok THEN r.st.items ELSE <<>>
  /\ standard_definitions' =
       IF r.ok THEN root.standard_definitions ELSE NoDefinitions
  /\ bans' = bans
  /\ last' = [NoCall EXCEPT !.op = "new", !.ok = r.ok, !.err = r.err,
                            !.val = r.val, !.reentered = r.st.reentered,
                            !.repeat = bans]

\* What new() leaves: the Semantic when the schema loaded (`r` is Ok), and
\* no Semantic otherwise; the bans are activated only on the way to Ok.
Constructed(root, r) ==
  /\ IF r.ok
     THEN /\ constructed' = TRUE
          /\ items' = r.st.items
          /\ standard_definitions' = root.standard_definitions
          /\ bans' = TRUE
     ELSE /\ constructed' = FALSE
          /\ items' = <<>>
          /\ standard_definitions' = NoDefinitions
          /\ bans' = bans
  /\ last' = [NoCall EXCEPT !.op = "new", !.ok = r.ok, !.err = r.err,
                            !.val = r.val, !.reentered = r.st.reentered,
                            !.repeat = bans, !.visited = r.st.visited,
                            !.exact = r.st.exact,
                            !.aliasing = r.st.aliasing \/ Broken(BootstrapViews)]

\* Semantic::new(): bootstrap, load the built-in schema, activate the bans.
\* The call history starts anew with the new Semantic.
New ==
  /\ calls' = 0
  /\ all_accepted' = TRUE
  /\ accepted' = {}
  /\ resolve_called' = FALSE
  /\ pre' = <<>>
  /\ Constructed(create_root_scope,
                 add_file(create_root_scope.items, <<"ambient.toml">>,
                          ArrayFileProvider, "Ambient", ""))

\* Added for an add_file whose failure leaves the arena as the bootstrap
\* made it.
AddedOrReset(op, args, r) ==
  /\ items' = IF r.ok THEN r.st.items ELSE create_root_scope.items
  /\ all_accepted' = (all_accepted /\ r.ok)
  /\ accepted' = IF r.ok THEN accepted \cup {[args |-> args, val |-> r.val]}
                 ELSE accepted
  /\ last' = Call(op, args, r)
  /\ pre' = items
  /\ calls' = calls + 1
  /\ UNCHANGED <<constructed, standard_definitions, bans, resolve_called>>

\* Added for an add_file that ends by resolving what it loaded.
AddedAndResolved(op, args, r) ==
  /\ items' = resolve(r.st.items).items
  /\ all_accepted' = (all_accepted /\ r.ok)
  /\ accepted' = IF r.ok THEN accepted \cup {[args |-> args, val |-> r.val]}
                 ELSE accepted
  /\ last' = Call(op, args, r)
  /\ pre' = items
  /\ calls' = calls + 1
  /\ UNCHANGED <<constructed, standard_definitions, bans, resolve_called>>

\* The bookkeeping of one add_file / add_ember call that returned `r`.
Added(op, args, r) ==
  /\ items' = r.st.items
  /\ all_accepted' = (all_accepted /\ r.ok)
  /\ accepted' = IF r.ok THEN accepted \cup {[args |-> args, val |-> r.val]}
                 ELSE accepted
  /\ last' = Call(op, args, r)
  /\ pre' = items
  /\ calls' = calls + 1
  /\ UNCHANGED <<constructed, standard_definitions, bans, resolve_called>>

AddFile(filename, provider, source, scope_name) ==
  /\ constructed
  /\ calls < MaxCalls
  /\ Added("add_file", Args(filename, provider, source, scope_name),
           add_file(items, filename, provider, source, scope_name))

AddEmber(ember_path) ==
  /\ constructed
  /\ calls < MaxCalls
  /\ Added("add_ember",
           Args(<<"ambient.toml">>, DiskFileProvider(ember_path), "User", ""),
           add_ember(items, ember_path))

ResolveReturned(r) ==
  /\ items' = r.items
  /\ last' = ResolveCall(r)
  /\ resolve_called' = TRUE
  /\ pre' = items
  /\ UNCHANGED <<constructed, standard_definitions, bans, calls, all_accepted,
                 accepted>>

Resolve ==
  /\ constructed
  /\ ResolveReturned(resolve(items))

Next ==
  \/ New
  \/ Resolve
  \/ \E a \in AddFileCalls : AddFile(a[1], a[2], a[3], a[4])
  \/ \E d \in EmberDirs : AddEmber(<<"/", d>>)

Spec == Init /\ [][Next]_vars

\* ------------------------------------------------------------------- claims

AddOps == {"add_file", "add_ember"}

\* C1: idempotent re-add.  A call of add_file that repeats an earlier,
\* successful call on this Semantic with identical arguments returns the same
\* scope handle and leaves the number of items of the arena and the root scope's
\* scopes mapping as they were.
C1_IdempotentReAdd ==
  (last.op \in AddOps /\ last.prev_vals # {}) =>
    /\ last.ok
    /\ last.prev_vals = {last.val}
    /\ Len(items) = Len(pre)
    /\ items[RootId].scopes = pre[RootId].scopes

C1_Witness ==
  /\ last.op = "add_file" /\ last.ok
  /\ last.val # NoId /\ last.prev_vals = {last.val}

\* C2: circular loading is detected.  When add_scope_from_manifest starts
\* for a manifest that is still being loaded, whatever chain of includes and
\* path dependencies led back to it, the add_file / add_ember call returns
\* the circular-dependency error and does not succeed.
C2_CircularDetected ==
  last.reentered => (~last.ok /\ last.err = "CircularInclude")

C2_Witness ==
  /\ last.op = "add_ember" /\ last.reentered
  /\ ~last.ok /\ last.err = "CircularInclude"

\* C3: a call that fails with the circular-dependency error leaves the
\* Semantic as it was before the call: the same items in the arena.
C3_CircularLeavesUnchanged ==
  (last.op \in AddOps /\ ~last.ok /\ last.err = "CircularInclude") => items = pre

\* The effective scope name of the last call is registered in the root scope
\* before the call, for a scope of another manifest path.
C4_NameTaken ==
  /\ last.op \in AddOps
  /\ LET file == Get(last.args.provider, last.args.filename)
         name == IF last.args.scope_name = "" THEN file.manifest.ember.id
                 ELSE last.args.scope_name
     IN /\ file.found /\ file.parse_ok
        /\ name \in DOMAIN pre[RootId].scopes
        /\ pre[pre[RootId].scopes[name]].manifest_path
             # SomePath(FullPath(last.args.provider, last.args.filename))

\* C4: duplicate top-level scope.  add_file whose effective scope name
\* (scope_name, or ember.id when scope_name is omitted) is a key of
\* root.scopes for a scope of another manifest path returns the
\* duplicate-scope error, adds no item and leaves root.scopes unchanged.
C4_DuplicateScope ==
  C4_NameTaken =>
    /\ ~last.ok /\ last.err = "DuplicateScope"
    /\ Len(items) = Len(pre)
    /\ items[RootId].scopes = pre[RootId].scopes

C4_Witness ==
  /\ C4_NameTaken /\ last.args.scope_name = ""
  /\ ~last.ok /\ last.err = "DuplicateScope"

AllResolved(refs) == \A i \in 1..Len(refs) : refs[i].arm = "Resolved"

NoUnresolvedArm(item) ==
  CASE item.kind = "Component" ->
         /\ item.type_.arm = "Resolved"
         /\ AllResolved(item.attributes)
         /\ item.default.arm # "Unresolved"
    [] item.kind = "Concept" ->
         /\ AllResolved(item.extends)
         /\ \A i \in 1..Len(item.components) :
              /\ item.components[i].comp.arm = "Resolved"
              /\ item.components[i].value.arm # "Unresolved"
    [] item.kind = "Message" ->
         \A i \in 1..Len(item.fields) : item.fields[i].type.arm = "Resolved"
    [] OTHER -> TRUE

\* C5: resolvedness.  When every add_file / add_ember call was accepted and
\* resolve() returns Ok, no item of the arena holds an Unresolved
\* ResolvableItemId or ResolvableValue.
C5_Resolvedness ==
  (all_accepted /\ last.op = "resolve" /\ last.ok) =>
    \A i \in 1..Len(items) : NoUnresolvedArm(items[i])

\* C6: idempotent resolution.  resolve() called again after a resolve() that
\* returned Ok succeeds and leaves every item of the arena equal to what it
\* was after the first.
C6_IdempotentResolve ==
  (last.op = "resolve" /\ last.repeat) => (last.ok /\ items = pre)

C6_Witness ==
  /\ last.op = "resolve" /\ last.repeat /\ last.ok
  /\ \E c \in 1..Len(items) :
       /\ items[c].kind = "Concept"
       /\ Len(items[c].extends) > 0
       /\ NoUnresolvedArm(items[c])

ComponentHandles(concept) ==
  {concept.components[i].comp.id : i \in 1..Len(concept.components)}

\* Concept c extends concept a by a resolved reference.
Extends(c, a) ==
  /\ items[c].kind = "Concept"
  /\ \E x \in 1..Len(items[c].extends) :
       items[c].extends[x].arm = "Resolved" /\ items[c].extends[x].id = a

RECURSIVE ParentChain(_, _)
ParentChain(arena, scope_id) ==
  IF scope_id = NoId THEN <<>>
  ELSE <<scope_id>> \o ParentChain(arena, arena[scope_id].data.parent_id)

\* Component i references its type by a dotted path that neither a scope of
\* its lookup chain nor the root scope defines.
UndefinedTypeReference(arena, i) ==
  /\ arena[i].kind = "Component"
  /\ arena[i].type_.arm = "Unresolved"
  /\ Lookup(arena, ParentChain(arena, arena[i].data.parent_id),
            arena[i].type_.path, "types") = NoId

\* C8: an unresolvable reference is an error.  resolve() never returns Ok
\* while a component of a loaded manifest still references its type by a
\* dotted path defined nowhere in its lookup chain.
C8_UnresolvableIsError ==
  (last.op = "resolve" /\ last.ok) =>
    ~ \E i \in 1..Len(items) : UndefinedTypeReference(items, i)

StandardHandle(name) ==
  CASE name = "Debuggable" -> standard_definitions.debuggable
    [] name = "Networked" -> standard_definitions.networked
    [] name = "Resource" -> standard_definitions.resource
    [] name = "MaybeResource" -> standard_definitions.maybe_resource
    [] name = "Store" -> standard_definitions.store
    [] OTHER -> standard_definitions.enum_

\* C10: bootstrap contents persist.  Once new() has returned Ok, and after
\* any later add_file / add_ember / resolve calls, root.types maps the id of
\* every PrimitiveType variant to a Type::Primitive item whose parent is the
\* root, and root.attributes maps each of the six standard attribute names
\* to the attribute handle recorded in StandardDefinitions.
C10_BootstrapPersists ==
  constructed =>
    /\ \A n \in 1..Len(PrimitiveTypes) :
         LET pt == PrimitiveTypes[n] IN
         /\ pt \in DOMAIN items[RootId].types
         /\ LET ty == items[items[RootId].types[pt]]
            IN /\ ty.kind = "Type"
               /\ ty.inner.tag = "Primitive" /\ ty.inner.pt = pt
               /\ ty.data.parent_id = RootId /\ ty.data.id = pt
    /\ \A n \in 1..Len(StandardAttributeNames) :
         LET name == StandardAttributeNames[n] IN
         /\ name \in DOMAIN items[RootId].attributes
         /\ items[RootId].attributes[name] = StandardHandle(name)
         /\ StandardHandle(name) \in 1..Len(items)
         /\ items[StandardHandle(name)].kind = "Attribute"
         /\ items[StandardHandle(name)].data.id = name
         /\ items[StandardHandle(name)].data.parent_id = RootId

C10_Witness ==
  /\ constructed /\ calls = MaxCalls
  /\ last.op = "resolve" /\ last.ok
  /\ Len(items) > Len(create_root_scope.items) + 3

\* No add_file / add_ember call has been made on the Semantic that new()
\* returned, and resolve() has returned Ok.
C11_NoUserManifest ==
  constructed /\ calls = 0 /\ last.op = "resolve" /\ last.ok

\* C11: the empty-user scenario.  With no user manifest added, after new()
\* and resolve() succeed the root scope's scopes mapping is empty.
C11_EmptyUserRootScopes ==
  C11_NoUserManifest => DOMAIN items[RootId].scopes = {}

\* C11 as amended: with no user manifest added, after new() (and after a
\* resolve() that follows it) the root scope's scopes mapping is not empty:
\* it holds the scope of the built-in schema, which new() loads as a
\* top-level file, under the ember.id of the schema's ambient.toml, with
\* source Ambient; and no entry of the mapping has another source.
C11_SchemaScopeOnly ==
  (constructed /\ calls = 0) =>
    LET schema_id == Get(ArrayFileProvider, <<"ambient.toml">>).manifest.ember.id
        scopes == items[RootId].scopes
    IN /\ schema_id \in DOMAIN scopes
       /\ items[scopes[schema_id]].kind = "Scope"
       /\ items[scopes[schema_id]].manifest_path = SomePath(<<"ambient.toml">>)
       /\ \A k \in DOMAIN scopes : items[scopes[k]].data.source = "Ambient"

C11_Witness ==
  C11_NoUserManifest /\ Cardinality(DOMAIN items[RootId].scopes) = 1

AllUnresolved(refs) == \A i \in 1..Len(refs) : refs[i].arm = "Unresolved"

\* Every ResolvableItemId the item holds is in the Unresolved arm.
OnlyUnresolvedIds(item) ==
  CASE item.kind = "Component" ->
         item.type_.arm = "Unresolved" /\ AllUnresolved(item.attributes)
    [] item.kind = "Concept" ->
         /\ AllUnresolved(item.extends)
         /\ \A i \in 1..Len(item.components) :
              item.components[i].comp.arm = "Unresolved"
    [] item.kind = "Message" ->
         \A i \in 1..Len(item.fields) : item.fields[i].type.arm = "Unresolved"
    [] OTHER -> TRUE

\* C12: loading never resolves.  As long as resolve() has not been called,
\* whatever add_file / add_ember calls were made (new()'s load of the schema
\* included, and failed calls too), every ResolvableItemId held by a
\* component, concept or message of the arena is in the Unresolved arm.
C12_LoadingNeverResolves ==
  (constructed /\ ~resolve_called) =>
    \A i \in 1..Len(items) : OnlyUnresolvedIds(items[i])

\* Two accepted loads, no resolve(): a concept with an extends list and a
\* component with attributes are in the arena.
C12_Witness ==
  /\ constructed /\ ~resolve_called /\ all_accepted /\ calls = MaxCalls
  /\ last.op \in AddOps /\ last.ok
  /\ \E c, d \in 1..Len(items) :
       /\ items[c].kind = "Concept" /\ Len(items[c].extends) > 0
       /\ Len(items[c].components) > 0
       /\ items[d].kind = "Component" /\ Len(items[d].attributes) > 0
       /\ items[d].data.source = "User"

\* C13: path dependencies.  After add_file / add_ember succeeds for a
\* manifest M, the dependencies list of M's scope holds one handle per Path
\* dependency of M, in manifest order, and each handle is the child of the
\* root that root.scopes registers under the dependency's name, with the
\* source of M.
C13_PathDependencies ==
  (last.op \in AddOps /\ last.ok) =>
    LET m == Get(last.args.provider, last.args.filename).manifest
        scope == items[last.val]
        root == items[RootId]
    IN /\ Len(scope.dependencies) = Len(m.dependencies)
       /\ \A i \in 1..Len(m.dependencies) :
            LET handle == scope.dependencies[i]
                name == m.dependencies[i].name
            IN /\ name \in DOMAIN root.scopes
               /\ root.scopes[name] = handle
               /\ items[handle].data.parent_id = RootId
               /\ items[handle].data.source = scope.data.source

\* The items below a scope: the scope, what its containers hold, and the
\* items below its child scopes.
RECURSIVE Below(_, _)
Below(arena, scope_id) ==
  LET scope == arena[scope_id]
  IN {scope_id} \cup Range(scope.components) \cup Range(scope.concepts)
       \cup Range(scope.messages) \cup Range(scope.types)
       \cup Range(scope.attributes)
       \cup UNION {Below(arena, s) : s \in Range(scope.scopes)}

\* The items Semantic::resolve reaches: those below the scopes of root.scopes.
ResolveVisits(arena) ==
  UNION {Below(arena, s) : s \in Range(arena[RootId].scopes)}

\* The indexes of the extends list of item c, if it is a concept.
ExtendsIndexes(arena, c) ==
  IF arena[c].kind = "Concept" THEN 1..Len(arena[c].extends) ELSE {}

\* The handles of the scopes in `scope_ids` whose concepts hold `name`.
DependenciesDefining(arena, scope_ids, name) ==
  {i \in 1..Len(scope_ids) : name \in DOMAIN arena[scope_ids[i]].concepts}

\* Before the last call, concept c references by the unqualified name of
\* its x-th extends entry a concept that its own scope does not define and
\* that a dependency of its scope defines.
C14_DefinedByDependency(c, x) ==
  /\ x \in ExtendsIndexes(pre, c)
  /\ pre[c].extends[x].arm = "Unresolved"
  /\ Len(pre[c].extends[x].path) = 1
  /\ LET scope == pre[pre[c].data.parent_id]
         name == pre[c].extends[x].path[1]
     IN /\ name \notin DOMAIN scope.concepts
        /\ DependenciesDefining(pre, scope.dependencies, name) # {}

\* The concept the dependencies of c's scope define under that name: the
\* first dependency, in order, that holds it.
C14_DependencyConcept(c, x) ==
  LET scope == pre[pre[c].data.parent_id]
      name == pre[c].extends[x].path[1]
      defining == DependenciesDefining(pre, scope.dependencies, name)
      first == CHOOSE i \in defining : \A j \in defining : i <= j
  IN pre[scope.dependencies[first]].concepts[name]

\* The accepted calls are the one add_ember of the manifest P of scenario 4.
C14_OnlyAppLoaded ==
  /\ all_accepted /\ calls = 1
  /\ \E a \in accepted : a.args.provider = DiskFileProvider(<<"/", "app">>)

\* C14: dependency lookup fallback.  When manifest P declares a path
\* dependency lib and lib defines concept widget, resolve() succeeds on P,
\* and in every resolve() that returns Ok an unqualified reference of a
\* concept that resolve() reaches, to a concept that its own scope does not
\* define and a dependency of its scope defines, becomes Resolved to the
\* dependency's concept.
C14_DependencyLookupFallback ==
  last.op = "resolve" =>
    /\ C14_OnlyAppLoaded => last.ok
    /\ last.ok =>
         \A c \in ResolveVisits(pre) : \A x \in ExtendsIndexes(pre, c) :
           C14_DefinedByDependency(c, x) =>
             items[c].extends[x] = Resolved(C14_DependencyConcept(c, x))

C14_Witness ==
  /\ last.op = "resolve" /\ last.ok /\ C14_OnlyAppLoaded
  /\ \E c \in 1..Len(pre) : \E x \in ExtendsIndexes(pre, c) :
       /\ C14_DefinedByDependency(c, x)
       /\ items[c].extends[x].arm = "Resolved"
       /\ items[items[c].extends[x].id].data.parent_id # items[c].data.parent_id

\* The scopes of the arena that were made from a manifest file: they hold the
\* manifest, which a scope made for a segment of a dotted path does not.
ManifestScopes(arena) ==
  {i \in 1..Len(arena) :
     /\ arena[i].kind = "Scope"
     /\ arena[i].has_manifest
     /\ arena[i].manifest_path.some}

\* A manifest file that two scopes were made from.
LoadedTwice(arena) ==
  \E i, j \in ManifestScopes(arena) :
    /\ i # j
    /\ Normalize(arena[i].manifest_path.path) = Normalize(arena[j].manifest_path.path)

\* C15: de-duplication by canonical path.  While every add_file / add_ember
\* call on the Semantic has succeeded, no two scopes of the arena that were
\* made from a manifest have the same canonical manifest path.
C15_OneScopePerManifestPath ==
  (constructed /\ all_accepted) => ~LoadedTwice(items)

\* One step of the ban flag: it never goes from on to off, a new() that
\* finds it on leaves it on, and a Semantic that new() returned exists only
\* with the flag on.
BanFlagStep ==
  /\ bans => bans'
  /\ constructed' => bans'

\* C16: identifier-ban flag lifecycle.  The flag starts off; no step turns it
\* off, so an activation by a later new() changes nothing; and whenever a
\* Semantic returned by new() exists, on which alone a user manifest can be
\* loaded, the flag is on.
C16_BanFlagLifecycle == ~bans /\ [][BanFlagStep]_vars

\* A later new() found the flag on and left it on.
C16_Witness ==
  /\ bans
  /\ constructed
  /\ last.op = "new"
  /\ last.repeat

\* The keys of one scope's containers have the casing of the container.
CasingOfContainers(scope) ==
  /\ \A k \in DOMAIN scope.scopes : IsSnake(k)
  /\ \A k \in DOMAIN scope.components : IsSnake(k)
  /\ \A k \in DOMAIN scope.concepts : IsSnake(k)
  /\ \A k \in DOMAIN scope.messages : IsPascal(k)
  /\ \A k \in DOMAIN scope.types : IsPascal(k)
  /\ \A k \in DOMAIN scope.attributes : IsPascal(k)

\* The final segments of the paths a list of declarations is made under.
FinalSegments(defs) == {ItemSegment(defs[n].path) : n \in 1..Len(defs)}

\* The manifest declares a component or a concept whose final segment is not
\* snake_case, or a message whose final segment is not PascalCase.
DeclaresBadCasing(manifest) ==
  \/ \E s \in FinalSegments(manifest.components) : ~IsSnake(s)
  \/ \E s \in FinalSegments(manifest.concepts) : ~IsSnake(s)
  \/ \E s \in FinalSegments(manifest.messages) : ~IsPascal(s)

\* The last call was an add_file / add_ember of a file whose manifest
\* declares an item under a key of the wrong casing.
C17_BadCasingAdded ==
  /\ last.op \in AddOps
  /\ LET file == Get(last.args.provider, last.args.filename)
     IN /\ file.found
        /\ file.parse_ok
        /\ DeclaresBadCasing(file.manifest)

\* C17: casing of containers.  In every state, in every scope of the arena,
\* the keys of scopes, components and concepts are snake_case identifiers and
\* the keys of messages, types and attributes are PascalCase identifiers; and
\* an add_file of a manifest that declares a component or concept whose final
\* segment is not snake_case, or a message whose final segment is not
\* PascalCase, returns an error.
C17_CasingOfContainers ==
  /\ \A i \in 1..Len(items) :
       items[i].kind = "Scope" => CasingOfContainers(items[i])
  /\ C17_BadCasingAdded => ~last.ok

\* A manifest with a concept under a PascalCase final segment, after a
\* well-cased component of the same manifest was inserted, was refused.
C17_Witness ==
  /\ C17_BadCasingAdded
  /\ ~last.ok
  /\ last.args.provider = DiskFileProvider(<<"/", "badk">>)
  /\ \E i \in 1..Len(items) :
       /\ items[i].kind = "Scope"
       /\ items[i].original_id = "badk"
       /\ DOMAIN items[i].components = {"size"}
       /\ DOMAIN items[i].concepts = {}

\* Arena `new` holds every handle of arena `old`, each for an item of the
\* kind it had.
ArenaExtends(old, new) ==
  /\ Len(new) >= Len(old)
  /\ \A i \in 1..Len(old) : new[i].kind = old[i].kind

\* C18: the arena is append-only with stable handles.  new() keeps every
\* item of the bootstrap, and every add_file / add_ember, successful or
\* failed, and every resolve() leaves the arena with at least the items it
\* had, each handle denoting an item of the same kind.
C18_ArenaAppendOnly ==
  /\ (last.op = "new" /\ constructed) =>
       ArenaExtends(create_root_scope.items, items)
  /\ (last.op \in AddOps \cup {"resolve"}) => ArenaExtends(pre, items)

\* A failed add_file left the items it had appended before it failed.
C18_Witness ==
  /\ last.op \in AddOps
  /\ ~last.ok
  /\ Len(items) > Len(pre)
  /\ ArenaExtends(pre, items)

\* The arena of a Semantic as new() returns it.
NewItems ==
  add_file(create_root_scope.items, <<"ambient.toml">>, ArrayFileProvider,
           "Ambient", "").st.items

\* Every item of `arena` at the handles from..to has source `source`.
AllFrom(arena, from, to, source) ==
  \A i \in from..to : arena[i].data.source = source

\* C19: source provenance.  In every state of a Semantic, the root scope,
\* the primitive types and the standard attributes have source System; the
\* built-in schema scope and every item created while loading it have source
\* Ambient; and every scope and item that an add_ember call created,
\* whether the call succeeded or failed, has source User.
C19_SourceProvenance ==
  constructed =>
    /\ items[RootId].data.source = "System"
    /\ \A i \in Range(items[RootId].types) \cup Range(items[RootId].attributes) :
         items[i].data.source = "System"
    /\ AllFrom(items, 1, Len(create_root_scope.items), "System")
    /\ AllFrom(items, Len(create_root_scope.items) + 1, Len(NewItems), "Ambient")
    /\ last.op = "add_ember" => AllFrom(items, Len(pre) + 1, Len(items), "User")

\* add_ember("/app") created the scope of app, its concept, and the scope and
\* items of the path dependency it loaded.
C19_Witness ==
  /\ last.op = "add_ember"
  /\ last.ok
  /\ last.args.provider = DiskFileProvider(<<"/", "app">>)
  /\ \E i, j, k \in (Len(pre) + 1)..Len(items) :
       /\ items[i].kind = "Scope" /\ items[i].original_id = "libcore"
       /\ items[j].kind = "Concept" /\ items[j].data.parent_id = i
       /\ items[k].kind = "Scope" /\ items[k].original_id = "app"
       /\ {items[i].data.source, items[j].data.source, items[k].data.source}
            = {"User"}

\* Scope i is registered in its parent's scopes mapping under its data.id.
RegisteredInParent(arena, i) ==
  LET parent == arena[arena[i].data.parent_id]
  IN /\ arena[i].data.id \in DOMAIN parent.scopes
     /\ parent.scopes[arena[i].data.id] = i

\* C20: scope-tree consistency by id.  After accepted add_file / add_ember
\* calls and a resolve() that returned Ok, the parent of every scope of the
\* arena other than the root maps the scope's data.id to the scope's handle.
C20_ScopeTreeConsistent ==
  (all_accepted /\ last.op = "resolve" /\ last.ok) =>
    \A i \in 1..Len(items) :
      (items[i].kind = "Scope" /\ i # RootId) => RegisteredInParent(items, i)

\* The last call was add_ember("/dia"): c.toml is included from l.toml and
\* from r.toml, neither of which is being loaded while the other is.
C21_DiamondAdded ==
  /\ last.op = "add_ember"
  /\ last.args.provider = DiskFileProvider(<<"/", "dia">>)
  /\ last.prev_vals = {}

\* C21: visited_files is a recursion stack.  During every new(), add_file
\* and add_ember, whenever add_scope_from_manifest has inserted its key or
\* returns Ok, visited_files is exactly the set of the cycle keys of the calls
\* in progress; a call that returns Ok leaves the set as the call found it,
\* empty; CircularInclude is raised only for a file whose load is in
\* progress; and the diamond of includes loads without CircularInclude.
C21_VisitedIsRecursionStack ==
  (last.op \in AddOps \cup {"new"}) =>
    /\ last.exact
    /\ last.ok => last.visited = {}
    /\ last.err = "CircularInclude" => last.reentered
    /\ C21_DiamondAdded => (last.ok /\ ~last.reentered)

\* The diamond was loaded: c.toml was entered twice, so that two scopes of
\* the arena were made from it, and visited_files ended empty.
C21_Witness ==
  /\ C21_DiamondAdded
  /\ last.ok
  /\ last.exact
  /\ last.visited = {}
  /\ \E i, j \in (Len(pre) + 1)..Len(items) :
       /\ i # j
       /\ items[i].kind = "Scope" /\ items[i].original_id = "dia_c"
       /\ items[j].kind = "Scope" /\ items[j].original_id = "dia_c"

\* The manifest a scope was made from, read again from its manifest path.
ManifestAt(p) == IF IsAbsolute(p) THEN DiskRead(p).manifest ELSE ArrayRead(p).manifest

\* Every scope on the walk of `path` from `start` is a child of the scope
\* before it under the segment's name, and one made for the segment has the
\* source of the scope the walk started from.
RECURSIVE WalkOk(_, _, _, _)
WalkOk(arena, start, path, source) ==
  \/ path = <<>>
  \/ /\ Head(path) \in DOMAIN arena[start].scopes
     /\ LET child_id == arena[start].scopes[Head(path)]
            child == arena[child_id]
        IN /\ child.kind = "Scope"
           /\ child.data.parent_id = start
           /\ child.data.id = Head(path)
           /\ ~child.has_manifest => child.data.source = source
           /\ WalkOk(arena, child_id, Tail(path), source)

\* The declarations `defs` of the manifest of scope `s` are placed: the
\* walk of the scope segments is in order and the innermost scope registers
\* an item of the declared kind under the final segment.
Placed(arena, s, defs, container, kind) ==
  \A n \in 1..Len(defs) :
    LET segments == Front(defs[n].path)
        final == Last(defs[n].path)
        inner == Descend(arena, s, segments)
    IN /\ WalkOk(arena, s, segments, arena[s].data.source)
       /\ inner # NoId
       /\ final \in DOMAIN Container(arena[inner], container)
       /\ LET item == arena[Container(arena[inner], container)[final]]
          IN item.kind = kind /\ item.data.id = final

\* The scopes made for a segment of a dotted path.
SegmentScopes(arena) ==
  {i \in 1..Len(arena) : arena[i].kind = "Scope" /\ i # RootId /\ ~arena[i].has_manifest}

\* C22: dotted-path placement.  After an add_file / add_ember that returned
\* Ok, for every manifest scope the call created, every component, concept
\* and message the manifest declares is registered under its final segment
\* in the scope that the walk of its scope segments from the manifest's
\* scope ends in, each scope on the walk being a child of the one before
\* under the segment's name, with the source of the manifest's scope when it
\* was made for the segment; and in every state no two scopes made for a
\* segment have the same parent and the same id.
C22_DottedPathPlacement ==
  /\ (last.op \in AddOps /\ last.ok) =>
       \A s \in (Len(pre) + 1)..Len(items) :
         (items[s].kind = "Scope" /\ items[s].has_manifest) =>
           LET manifest == ManifestAt(items[s].manifest_path.path)
           IN /\ Placed(items, s, manifest.components, "components", "Component")
              /\ Placed(items, s, manifest.concepts, "concepts", "Concept")
              /\ Placed(items, s, manifest.messages, "messages", "Message")
  /\ \A i, j \in SegmentScopes(items) :
       (items[i].data.parent_id = items[j].data.parent_id
          /\ items[i].data.id = items[j].data.id) => i = j

\* The diamond was loaded: under each of the two scopes made from c.toml,
\* sub.inner.size and sub.inner.thing are in one scope `inner`, sub.extra and
\* sub.Hello in its parent `sub`, and four scopes were made for segments.
C22_Witness ==
  /\ C21_DiamondAdded
  /\ last.ok
  /\ Cardinality({i \in SegmentScopes(items) : i > Len(pre)}) = 4
  /\ \E s \in (Len(pre) + 1)..Len(items) :
       /\ items[s].kind = "Scope" /\ items[s].original_id = "dia_c"
       /\ LET sub == Descend(items, s, <<"sub">>)
              inner == Descend(items, s, <<"sub", "inner">>)
          IN /\ inner # NoId
             /\ DOMAIN items[inner].components = {"size"}
             /\ DOMAIN items[inner].concepts = {"thing"}
             /\ DOMAIN items[sub].components = {"extra"}
             /\ DOMAIN items[sub].messages = {"Hello"}
             /\ DOMAIN items[sub].scopes = {"inner"}

\* The components, concepts, messages and types registered in scope s.
RegisteredItems(arena, s) ==
  Range(arena[s].components) \cup Range(arena[s].concepts)
    \cup Range(arena[s].messages) \cup Range(arena[s].types)

\* C23: item parent matches container.  In every state, every component,
\* concept, message and type registered in a container of a scope has that
\* scope as its data.parent_id.
C23_ItemParentMatchesContainer ==
  constructed =>
    \A s \in 1..Len(items) :
      items[s].kind = "Scope" =>
        \A i \in RegisteredItems(items, s) : items[i].data.parent_id = s

\* The top-level scope name of the last add_file / add_ember call.
TopLevelName ==
  IF last.args.scope_name # "" THEN last.args.scope_name
  ELSE Get(last.args.provider, last.args.filename).manifest.ember.id

\* C24: top-level registration happens last.  When an add_file / add_ember
\* call fails for a scope name that was not a key of root.scopes before the
\* call, the name is not a key of root.scopes after it.
C24_RegistrationHappensLast ==
  (/\ last.op \in AddOps
   /\ ~last.ok
   /\ TopLevelName \notin DOMAIN pre[RootId].scopes)
    => TopLevelName \notin DOMAIN items[RootId].scopes

\* The manifest files that exist: the keys visited_files can hold.
ExistingFiles == DOMAIN DiskFiles \cup DOMAIN SchemaFiles

\* C25: loading terminates.  No new(), add_file or add_ember nests
\* add_scope_from_manifest calls to the depth bound: every call returns a
\* scope handle or one of the loader's errors; the keys in visited_files,
\* one per call in progress, are paths of files that exist, of which there
\* are finitely many.
C25_LoadingTerminates ==
  (last.op \in AddOps \cup {"new"}) =>
    /\ last.err # "StackOverflow"
    /\ last.ok <=> last.val # NoId
    /\ last.ok <=> last.err = ""
    /\ last.visited \subseteq ExistingFiles
    /\ Cardinality(last.visited) < MaxDepth

\* Cyclic edges ended the call: a path dependency on the manifest that
\* declares it was refused with CircularInclude.
C25_Witness ==
  /\ last.op = "add_ember"
  /\ last.args.provider = DiskFileProvider(<<"/", "d1">>)
  /\ ~last.ok
  /\ last.err = "CircularInclude"
  /\ last.reentered

\* The loop of fully_qualified_path run for at most `fuel` turns from the
\* item `id`: TRUE when it comes to an item without parent within them.
RECURSIVE ReachesRoot(_, _, _)
ReachesRoot(arena, id, fuel) ==
  \/ arena[id].data.parent_id = NoId
  \/ /\ fuel > 0
     /\ arena[id].data.parent_id \in 1..Len(arena)
     /\ ReachesRoot(arena, arena[id].data.parent_id, fuel - 1)

\* C26: the parent chain is acyclic.  In every state the root scope is the
\* only item without parent_id, the parent_id of every other item is the
\* handle of a scope, and following parent_id from any item comes to the
\* root scope within as many steps as the arena has items.
C26_ParentChainAcyclic ==
  constructed =>
    \A i \in 1..Len(items) :
      /\ (items[i].data.parent_id = NoId) <=> (i = RootId)
      /\ i # RootId =>
           /\ items[i].data.parent_id \in 1..Len(items)
           /\ items[items[i].data.parent_id].kind = "Scope"
      /\ ReachesRoot(items, i, Len(items))

\* The scope furthest from the root in the diamond: the scope inner of
\* c.toml is under sub, under dia_c, under dia_l or dia_r, under dia, under
\* the root: five steps and no fewer.
C26_Witness ==
  /\ C21_DiamondAdded
  /\ last.ok
  /\ \E i \in 1..Len(items) :
       /\ items[i].kind = "Scope"
       /\ items[i].data.id = "inner"
       /\ Len(ParentChain(items, i)) = 6
       /\ ReachesRoot(items, i, 5)
       /\ ~ReachesRoot(items, i, 4)

\* C27: no aliasing violation.  In no new(), add_file, add_ember or
\* resolve() does a statement of the loader or of Semantic::resolve request
\* a mutable view of a handle of which a view is outstanding, or a view of a
\* handle of which a mutable view is outstanding.
C27_NoAliasingViolation == ~last.aliasing

\* An add_file found its scope name registered: the view of the registered
\* scope was taken while the view of the root scope was outstanding, both
\* read-only.
C27_Witness ==
  /\ last.op \in AddOps
  /\ last.ok
  /\ last.prev_vals # {}
  /\ ~last.aliasing
  /\ Len(LookupViews(pre, RootId, TopLevelName)) = 2
  /\ ~Conflicts(LookupViews(pre, RootId, TopLevelName))

====
